---- MODULE Spec2Model ----
(***************************************************************************)
(* Model of main.py: the /search endpoint of the ranobes.com metadata      *)
(* provider.  A text is a sequence of one-character strings; an Optional   *)
(* value is the empty sequence (None) or a one-element sequence.           *)
(***************************************************************************)
EXTENDS Integers, Sequences, FiniteSets, TLC

VARIABLES creds, serving, remote, pc, query, cookies, links, idx, results,
          outcome, inflight, sent, recv, html, parsed

vars == <<creds, serving, remote, pc, query, cookies, links, idx, results,
          outcome, inflight, sent, recv, html, parsed>>

reqVars == <<serving, remote, pc, query, cookies, links, idx, results,
             outcome, inflight, sent, recv>>

\* ------------------------------------------------------------- bounds
NumRequests == 2
MaxArticles == 3
MaxConcArticles == 1
MaxTokenLen == 5
MaxStyleLen == 6
MaxTitleLen == 2

\* ------------------------------------------------------------- values
None == <<>>
Some(x) == <<x>>

RECURSIVE SeqsUpTo(_, _)
SeqsUpTo(S, n) ==
    IF n = 0 THEN {<<>>}
    ELSE LET shorter == SeqsUpTo(S, n - 1)
         IN  shorter \cup {Append(s, c) : s \in {t \in shorter : Len(t) = n - 1}, c \in S}

\* the only status the code accepts (lines 61, 128)
STATUS_OK == 200
Statuses == {200, 404}

\* ------------------------------------------------- text helpers (str, re)
IsSpace(c) == c = " "

RECURSIVE lstrip(_)
lstrip(s) == IF s # <<>> /\ IsSpace(Head(s)) THEN lstrip(Tail(s)) ELSE s

RECURSIVE rstrip(_)
rstrip(s) ==
    IF s # <<>> /\ IsSpace(s[Len(s)]) THEN rstrip(SubSeq(s, 1, Len(s) - 1)) ELSE s

\* str.strip()
strip(s) == rstrip(lstrip(s))

DigitVal ==
    [c \in {"0", "1", "2", "3", "4", "5", "6", "7", "8", "9"} |->
        CASE c = "0" -> 0 [] c = "1" -> 1 [] c = "2" -> 2 [] c = "3" -> 3
          [] c = "4" -> 4 [] c = "5" -> 5 [] c = "6" -> 6 [] c = "7" -> 7
          [] c = "8" -> 8 [] c = "9" -> 9]

IsDigit(c) == c \in DOMAIN DigitVal

\* int(text) of a run of decimal digits
RECURSIVE int(_)
int(ds) ==
    IF ds = <<>> THEN 0
    ELSE int(SubSeq(ds, 1, Len(ds) - 1)) * 10 + DigitVal[ds[Len(ds)]]

\* the last index of the greedy \d+ run that starts at index i (i-1 if none)
RECURSIVE DigitRun(_, _)
DigitRun(s, i) ==
    IF i <= Len(s) /\ IsDigit(s[i]) THEN DigitRun(s, i + 1) ELSE i - 1

\* a plausible slip: the pattern anchored at both ends (PT(\d+)H$)
re_fullmatch_hours(content) ==
    LET j == DigitRun(content, 3)
    IN  IF /\ Len(content) >= 4
           /\ content[1] = "P"
           /\ content[2] = "T"
           /\ j >= 3
           /\ j + 1 = Len(content)
           /\ content[j + 1] = "H"
        THEN Some(SubSeq(content, 3, j))
        ELSE None

\* re.match(r"PT(\d+)H", content): anchored at the start only; group(1)
re_match_hours(content) ==
    LET j == DigitRun(content, 3)
    IN  IF /\ Len(content) >= 4
           /\ content[1] = "P"
           /\ content[2] = "T"
           /\ j >= 3
           /\ j + 1 <= Len(content)
           /\ content[j + 1] = "H"
        THEN Some(SubSeq(content, 3, j))
        ELSE None

\* the first index >= i holding ")" (0 if none): the lazy (.*?) stops there
RECURSIVE FirstClose(_, _)
FirstClose(s, i) ==
    IF i > Len(s) THEN 0
    ELSE IF s[i] = ")" THEN i
    ELSE FirstClose(s, i + 1)

\* re.search(r"url\((.*?)\)", style) tried from index i on; group(1)
RECURSIVE search_url_from(_, _)
search_url_from(s, i) ==
    IF i + 3 > Len(s) THEN None
    ELSE IF SubSeq(s, i, i + 3) = <<"u", "r", "l", "(">> /\ FirstClose(s, i + 4) # 0
         THEN Some(SubSeq(s, i + 4, FirstClose(s, i + 4) - 1))
         ELSE search_url_from(s, i + 1)

re_search_url(style) == search_url_from(style, 1)

\* ------------------------------------------------------ detail pages
\* A detail page as the selectors of fetch_and_parse_book see it.
TextNode(t) == [tag |-> FALSE, text |-> t]
TagNode == [tag |-> TRUE, text |-> <<>>]

NoH1 == [elem |-> FALSE, contents |-> <<>>]
H1(contents) == [elem |-> TRUE, contents |-> contents]

NoFigure == [elem |-> FALSE, hasStyle |-> FALSE, style |-> <<>>]
FigureNoStyle == [elem |-> TRUE, hasStyle |-> FALSE, style |-> <<>>]
Figure(style) == [elem |-> TRUE, hasStyle |-> TRUE, style |-> style]

NoMeta == [elem |-> FALSE, hasContent |-> FALSE, content |-> <<>>]
MetaNoContent == [elem |-> TRUE, hasContent |-> FALSE, content |-> <<>>]
Meta(content) == [elem |-> TRUE, hasContent |-> TRUE, content |-> content]

Page(root, h1, figure, meta) ==
    [root |-> root, h1 |-> h1, figure |-> figure, timeRequired |-> meta]

Raised(e) == [exc |-> e, val |-> None]
Value(v) == [exc |-> "none", val |-> Some(v)]

\* line 67: block.select_one("h1.title").contents[0].strip()
title_of(page) ==
    IF ~page.root THEN Raised("AttributeError")
    ELSE IF ~page.h1.elem THEN Raised("AttributeError")
    ELSE IF page.h1.contents = <<>> THEN Raised("IndexError")
    ELSE IF page.h1.contents[1].tag THEN Raised("TypeError")
    ELSE Value(strip(page.h1.contents[1].text))

\* lines 74-76: the style attribute of the cover figure, then its url(...)
cover_of(page) ==
    IF ~page.figure.elem THEN Raised("TypeError")
    ELSE IF ~page.figure.hasStyle THEN Raised("KeyError")
    ELSE Value(re_search_url(page.figure.style))

\* lines 90-95
duration_of(page) ==
    LET meta == page.timeRequired
    IN  IF meta.elem /\ meta.hasContent /\ meta.content # <<>>
        THEN LET match == re_match_hours(meta.content)
             IN  IF match # None THEN Some(int(match[1]) * 3600) ELSE None
        ELSE None

BookMetadata(title, cover, duration) ==
    [title |-> title, cover |-> cover, duration |-> duration]

\* lines 64-108: the parse of one response body
parse_book(page) ==
    LET title == title_of(page)
        cover == cover_of(page)
    IN  IF title.exc # "none" THEN Raised(title.exc)
        ELSE IF cover.exc # "none" THEN Raised(cover.exc)
        ELSE Value(BookMetadata(title.val[1], cover.val[1], duration_of(page)))

\* ------------------------------------------------------ credentials
\* os.getenv: unset (None), set to the empty text, or set to a token
Unset == [set |-> FALSE, val |-> <<>>]
SetTo(v) == [set |-> TRUE, val |-> v]
EnvValues == {Unset, SetTo(<<>>), SetTo(<<"s">>)}

\* Python truthiness of an Optional[str]
Truthy(v) == v.set /\ v.val # <<>>

Environments ==
    [DLE_USER_ID : EnvValues, DLE_PASSWORD : EnvValues, PHPSESSID : EnvValues]

CookieDict(env) ==
    [dle_user_id |-> env.DLE_USER_ID.val,
     dle_password |-> env.DLE_PASSWORD.val,
     PHPSESSID |-> env.PHPSESSID.val]

\* a plausible slip: only unset variables are rejected ("is None")
get_auth_cookies_unset_only(env) ==
    IF ~(env.DLE_USER_ID.set /\ env.DLE_PASSWORD.set /\ env.PHPSESSID.set)
    THEN Raised("HTTPException_401")
    ELSE Value(CookieDict(env))

\* lines 47-54
get_auth_cookies(env) ==
    IF ~(Truthy(env.DLE_USER_ID) /\ Truthy(env.DLE_PASSWORD) /\ Truthy(env.PHPSESSID))
    THEN Raised("HTTPException_401")
    ELSE Value(CookieDict(env))

\* ------------------------------------------------------ listing pages
Requests == 1 .. NumRequests
Queries == {"q1", "q2"}
URLs == {"/a", "/b"}
SEARCH_URL == "https://ranobes.com/index.php"

\* a result article as line 133 sees it: its h2.title anchor and the href
NoAnchor == [anchor |-> FALSE, hasHref |-> FALSE, href |-> ""]
AnchorNoHref == [anchor |-> TRUE, hasHref |-> FALSE, href |-> ""]
Anchor(u) == [anchor |-> TRUE, hasHref |-> TRUE, href |-> u]

ArticleKinds == {NoAnchor, AnchorNoHref} \cup {Anchor(u) : u \in URLs}

\* line 133: the list comprehension, in document order
RECURSIVE harvest_links(_)
harvest_links(articles) ==
    IF articles = <<>> THEN Value(<<>>)
    ELSE LET a == Head(articles)
             rest == harvest_links(Tail(articles))
         IN  IF ~a.anchor THEN rest
             ELSE IF ~a.hasHref THEN Raised("KeyError")
             ELSE IF rest.exc # "none" THEN rest
             ELSE Value(<<a.href>> \o rest.val[1])

\* ------------------------------------------------------ network values
ErrorPage == Page(FALSE, NoH1, NoFigure, NoMeta)
CoverStyle == <<"u", "r", "l", "(", "/", "c", ")">>
GoodPage ==
    Page(TRUE, H1(<<TextNode(<<"a">>)>>), Figure(CoverStyle), Meta(<<"P", "T", "5", "H">>))
GoodPage2 ==
    Page(TRUE, H1(<<TextNode(<<" ", "b">>), TagNode>>), Figure(<<"x">>), NoMeta)
BlankTitlePage ==
    Page(TRUE, H1(<<TextNode(<<" ">>)>>), Figure(CoverStyle), MetaNoContent)
NoCoverPage ==
    Page(TRUE, H1(<<TextNode(<<"a">>)>>), NoFigure, NoMeta)
SamplePages == {GoodPage, GoodPage2, BlankTitlePage, NoCoverPage, ErrorPage}

PostCall(q, ck) == [method |-> "POST", url |-> SEARCH_URL, story |-> q, cookies |-> ck]
GetCall(u, ck) == [method |-> "GET", url |-> u, story |-> "", cookies |-> ck]

TransportFailure ==
    [exc |-> "TransportError", status |-> 0, articles |-> <<>>, page |-> ErrorPage]
ListingResponse(st, arts) ==
    [exc |-> "none", status |-> st, articles |-> arts, page |-> ErrorPage]
DetailResponse(st, page) ==
    [exc |-> "none", status |-> st, articles |-> <<>>, page |-> page]

\* what the remote site may answer: every case, for one request at a time
FullSite ==
    [listing |->
        {TransportFailure}
        \cup {ListingResponse(st, arts) :
                st \in Statuses \ {STATUS_OK}, arts \in {<<>>, <<Anchor("/a")>>}}
        \cup {ListingResponse(STATUS_OK, arts) : arts \in SeqsUpTo(ArticleKinds, MaxArticles)},
     detail |->
        {TransportFailure}
        \cup {DetailResponse(st, ErrorPage) : st \in Statuses \ {STATUS_OK}}
        \cup {DetailResponse(STATUS_OK, p) : p \in SamplePages}]

\* a well-formed site, for requests served side by side
SmallSite ==
    [listing |->
        {ListingResponse(st, <<>>) : st \in Statuses \ {STATUS_OK}}
        \cup {ListingResponse(STATUS_OK, arts) :
                arts \in SeqsUpTo({Anchor("/a")}, MaxConcArticles)},
     detail |->
        {DetailResponse(st, ErrorPage) : st \in Statuses \ {STATUS_OK}}
        \cup {DetailResponse(STATUS_OK, p) : p \in {GoodPage, GoodPage2}}]

\* remote names the site the requests of a behaviour talk to
Site(kind) == IF kind = "full" THEN FullSite ELSE SmallSite

\* ------------------------------------------------------ the handlers
\* every exception the per-item step can see derives from Exception
ExceptionClasses ==
    {"HTTPException_401", "HTTPException_500", "TransportError",
     "AttributeError", "TypeError", "KeyError", "IndexError"}

\* a plausible slip: except HTTPException
except_HTTPException(e) == e \in {"HTTPException_401", "HTTPException_500"}

\* line 140: except Exception
except_Exception(e) == e \in ExceptionClasses

\* a plausible slip: only server errors of the listing request are terminal
search_failed_5xx(response) == response.status >= 500

\* line 128
search_failed(response) == response.status # STATUS_OK

\* lines 58-108: one detail fetch; the transport's exception, the status, the parse
fetch_and_parse_book(response) ==
    IF response.exc # "none" THEN Raised(response.exc)
    ELSE IF response.status # STATUS_OK THEN Raised("HTTPException_500")
    ELSE parse_book(response.page)

\* a plausible slip: asyncio.gather over all the links
gather_calls(i, n) == [k \in 1 .. (n - i + 1) |-> i + k - 1]

\* lines 136-138: the loop awaits one fetch per iteration; the link
\* indices whose GET is issued when the loop reaches link i of n
next_calls(i, n) == <<i>>

\* a plausible slip: results.insert(0, book)
insert_result(res, r, book) == [res EXCEPT ![r] = <<book>> \o @]

\* a plausible slip: one module-level results list for every request
append_shared(res, r, book) == [x \in DOMAIN res |-> Append(res[x], book)]

\* lines 135, 139: the request's own list
append_result(res, r, book) == [res EXCEPT ![r] = Append(@, book)]

Idle ==
    /\ pc = [r \in Requests |-> "idle"]
    /\ query = [r \in Requests |-> ""]
    /\ cookies = [r \in Requests |-> None]
    /\ links = [r \in Requests |-> <<>>]
    /\ idx = [r \in Requests |-> 0]
    /\ results = [r \in Requests |-> <<>>]
    /\ outcome = [r \in Requests |-> "pending"]
    /\ inflight = [r \in Requests |-> {}]
    /\ sent = [r \in Requests |-> <<>>]
    /\ recv = [r \in Requests |-> <<>>]

NotParsed == [exc |-> "pending", val |-> None]

\* one request, against every answer of the remote site
Init ==
    /\ creds \in Environments
    /\ serving = {1}
    /\ remote = "full"
    /\ Idle
    /\ html = ErrorPage
    /\ parsed = NotParsed

\* every request at once
InitConc ==
    /\ creds \in Environments
    /\ serving = Requests
    /\ remote = "small"
    /\ Idle
    /\ html = ErrorPage
    /\ parsed = NotParsed

\* the handler returns or raises: the response is sent
Respond(r, out) ==
    /\ pc' = [pc EXCEPT ![r] = "done"]
    /\ outcome' = [outcome EXCEPT ![r] = out]

\* the GETs of the link indices in calls, appended to the calls sent so far
Issue(r, ls, calls, answered) ==
    /\ sent' = [sent EXCEPT ![r] =
                  @ \o [k \in 1 .. Len(calls) |-> GetCall(ls[calls[k]], cookies[r][1])]]
    /\ inflight' = [inflight EXCEPT ![r] =
                  (@ \ {answered}) \cup {Len(sent[r]) + k : k \in 1 .. Len(calls)}]

\* lines 155-157, 47-54, 111-127: up to the await of the listing POST
search(r) ==
    /\ r \in serving
    /\ pc[r] = "idle"
    /\ \E q \in Queries :
        LET auth == get_auth_cookies(creds)
        IN  /\ query' = [query EXCEPT ![r] = q]
            /\ IF auth.exc # "none"
               THEN /\ Respond(r, "Unauthenticated")
                    /\ UNCHANGED <<cookies, sent, inflight>>
               ELSE /\ cookies' = [cookies EXCEPT ![r] = auth.val]
                    /\ sent' = [sent EXCEPT ![r] = <<PostCall(q, auth.val[1])>>]
                    /\ inflight' = [inflight EXCEPT ![r] = {1}]
                    /\ pc' = [pc EXCEPT ![r] = "await_post"]
                    /\ UNCHANGED outcome
    /\ UNCHANGED <<creds, serving, remote, links, idx, results, recv, html, parsed>>

\* lines 122-138: the listing response, the harvest, the first detail GET
listing_response(r) ==
    /\ pc[r] = "await_post"
    /\ 1 \in inflight[r]
    /\ \E response \in Site(remote).listing :
        LET harvest == harvest_links(response.articles)
        IN  /\ recv' = [recv EXCEPT ![r] = Append(@, response)]
            /\ IF response.exc # "none" \/ search_failed(response) \/ harvest.exc # "none"
                  \/ harvest.val = Some(<<>>)
               THEN /\ Respond(r, IF response.exc # "none" THEN "InternalServerError"
                                  ELSE IF search_failed(response) THEN "SearchUnavailable"
                                  ELSE IF harvest.exc # "none" THEN "InternalServerError"
                                  ELSE "matches")
                    /\ inflight' = [inflight EXCEPT ![r] = @ \ {1}]
                    /\ UNCHANGED <<links, idx, sent>>
               ELSE /\ links' = [links EXCEPT ![r] = harvest.val[1]]
                    /\ idx' = [idx EXCEPT ![r] = 1]
                    /\ Issue(r, harvest.val[1], next_calls(1, Len(harvest.val[1])), 1)
                    /\ pc' = [pc EXCEPT ![r] = "await_get"]
                    /\ UNCHANGED outcome
    /\ UNCHANGED <<creds, serving, remote, query, cookies, results, html, parsed>>

\* lines 136-142, 158: one detail response, then the next GET or the return
detail_response(r) ==
    /\ pc[r] = "await_get"
    /\ idx[r] + 1 \in inflight[r]
    /\ \E response \in Site(remote).detail :
        LET book == fetch_and_parse_book(response)
            n == Len(links[r])
        IN  /\ recv' = [recv EXCEPT ![r] = Append(@, response)]
            /\ results' = IF book.exc = "none"
                          THEN append_result(results, r, book.val[1])
                          ELSE results
            /\ IF book.exc # "none" /\ ~except_Exception(book.exc)
               THEN /\ Respond(r, "InternalServerError")
                    /\ inflight' = [inflight EXCEPT ![r] = @ \ {idx[r] + 1}]
                    /\ UNCHANGED <<idx, sent>>
               ELSE IF idx[r] < n
               THEN /\ idx' = [idx EXCEPT ![r] = @ + 1]
                    /\ Issue(r, links[r], next_calls(idx[r] + 1, n), idx[r] + 1)
                    /\ UNCHANGED <<pc, outcome>>
               ELSE /\ Respond(r, "matches")
                    /\ inflight' = [inflight EXCEPT ![r] = @ \ {idx[r] + 1}]
                    /\ UNCHANGED <<idx, sent>>
    /\ UNCHANGED <<creds, serving, remote, query, cookies, links, html, parsed>>

Next ==
    \E r \in Requests : search(r) \/ listing_response(r) \/ detail_response(r)

Spec == Init /\ [][Next]_vars

SpecConc == InitConc /\ [][Next]_vars

\* ------------------------------------------------------ the parse alone
TitleTexts == SeqsUpTo({" ", "a"}, MaxTitleLen) \ {<<>>}
Nodes == {TagNode} \cup {TextNode(t) : t \in TitleTexts}

\* the children of the heading: the parser merges adjacent text
H1Contents ==
    {<<>>} \cup {<<n>> : n \in Nodes}
    \cup {p \in Nodes \X Nodes : p[1].tag \/ p[2].tag}
H1Kinds == {NoH1} \cup {H1(c) : c \in H1Contents}

SampleStyles == {<<>>, <<"x">>, CoverStyle}
FigureKinds == {NoFigure, FigureNoStyle} \cup {Figure(s) : s \in SampleStyles}

SampleTokens ==
    {<<>>, <<"P", "T", "5", "H">>, <<"P", "T", "5", "H", "3", "0", "M">>,
     <<"P", "1", "D">>, <<"P", "T", "1", "0", "H">>, <<"x", "P", "T", "5", "H">>}
MetaKinds == {NoMeta, MetaNoContent} \cup {Meta(t) : t \in SampleTokens}

TokenChars == {"P", "T", "H", "M", "D", "1", "5"}
StyleChars == {"u", "r", "l", "(", ")"}

\* every combination of heading, cover figure and duration element
StructPages ==
    {ErrorPage}
    \cup {Page(TRUE, h, f, m) : h \in H1Kinds, f \in FigureKinds, m \in MetaKinds}

\* a tuple for a function over 1 .. k
AsText(f, k) == SubSeq(f, 1, k)

TokenPage(t) == Page(TRUE, H1(<<TextNode(<<"a">>)>>), Figure(CoverStyle), Meta(t))
StylePage(st) == Page(TRUE, H1(<<TextNode(<<"a">>)>>), Figure(st), NoMeta)

\* a page of StructPages, or a page with any content token of at most
\* MaxTokenLen characters, or one with any style of at most MaxStyleLen
InitExtract ==
    /\ creds = [DLE_USER_ID |-> Unset, DLE_PASSWORD |-> Unset, PHPSESSID |-> Unset]
    /\ serving = {}
    /\ remote = "small"
    /\ Idle
    /\ \/ html \in StructPages
       \/ \E k \in 0 .. MaxTokenLen : \E t \in [1 .. k -> TokenChars] :
             html = TokenPage(AsText(t, k))
       \/ \E k \in 0 .. MaxStyleLen : \E st \in [1 .. k -> StyleChars] :
             html = StylePage(AsText(st, k))
    /\ parsed = NotParsed

\* lines 64-108 on one response body
extract ==
    /\ parsed.exc = "pending"
    /\ serving = {}
    /\ parsed' = parse_book(html)
    /\ UNCHANGED <<creds, reqVars, html>>

NextExtract == extract

SpecExtract == InitExtract /\ [][NextExtract]_vars

\* ====================================================== properties
\* the hrefs of the articles that have a title anchor, in document order
RECURSIVE Hrefs(_)
Hrefs(articles) ==
    IF articles = <<>> THEN <<>>
    ELSE (IF Head(articles).anchor /\ Head(articles).hasHref
          THEN <<Head(articles).href>> ELSE <<>>) \o Hrefs(Tail(articles))

FetchedOK(response) == response.exc = "none" /\ response.status = 200

\* the records of the responses that were fetched and extracted, in order
RECURSIVE Successes(_)
Successes(responses) ==
    IF responses = <<>> THEN <<>>
    ELSE (IF FetchedOK(Head(responses)) /\ parse_book(Head(responses).page).exc = "none"
          THEN parse_book(Head(responses).page).val
          ELSE <<>>) \o Successes(Tail(responses))

DetailResponses(r) == SubSeq(recv[r], 2, Len(recv[r]))

\* C1: when the listing succeeds, perform_search returns exactly the records
\* of the links whose fetch and extraction succeeded, in the order the links
\* were discovered; failed links leave no entry and nothing is reordered.
C1_OrderedSuccesses ==
    \A r \in Requests :
        outcome[r] = "matches" =>
            /\ links[r] = Hrefs(recv[r][1].articles)
            /\ Len(recv[r]) = Len(links[r]) + 1
            /\ \A i \in 1 .. Len(links[r]) : sent[r][i + 1].url = links[r][i]
            /\ results[r] = Successes(DetailResponses(r))

C1_Witness ==
    \E r \in Requests :
        /\ outcome[r] = "matches"
        /\ Len(links[r]) = 3
        /\ links[r][1] # links[r][3]
        /\ FetchedOK(recv[r][2])
        /\ recv[r][3].exc = "none" /\ recv[r][3].status = 404
        /\ FetchedOK(recv[r][4])
        /\ Len(results[r]) = 2
        /\ results[r][1] = parse_book(recv[r][2].page).val[1]
        /\ results[r][2] = parse_book(recv[r][4].page).val[1]
        /\ results[r][1] # results[r][2]

\* the listing request succeeded and its links were harvested
Harvested(r) ==
    /\ Len(recv[r]) >= 1
    /\ FetchedOK(recv[r][1])
    /\ \A i \in 1 .. Len(recv[r][1].articles) :
          recv[r][1].articles[i].anchor => recv[r][1].articles[i].hasHref

\* C2: once the links are harvested, no failure of a detail page (status,
\* transport error, extraction failure) fails the query: the endpoint
\* answers with a matches payload, never an error payload.
C2_ItemFailuresAbsorbed ==
    \A r \in Requests :
        Harvested(r) =>
            /\ outcome[r] \in {"pending", "matches"}
            /\ pc[r] = "done" => outcome[r] = "matches"

C2_Witness ==
    \E r \in Requests :
        /\ Harvested(r)
        /\ outcome[r] = "matches"
        /\ Len(links[r]) = 3
        /\ recv[r][2].exc = "TransportError"
        /\ recv[r][3].exc = "none" /\ recv[r][3].status = 404
        /\ FetchedOK(recv[r][4]) /\ parse_book(recv[r][4].page).exc # "none"
        /\ results[r] = <<>>

\* C3: a non-success status of the listing request fails the query with
\* SearchUnavailable and no detail fetch is issued at any point.
C3_ListingFailureTerminal ==
    \A r \in Requests :
        (/\ Len(recv[r]) >= 1
         /\ recv[r][1].exc = "none"
         /\ recv[r][1].status \notin 200 .. 299) =>
            /\ pc[r] = "done"
            /\ outcome[r] = "SearchUnavailable"
            /\ Len(sent[r]) = 1
            /\ \A k \in DOMAIN sent[r] : sent[r][k].method # "GET"
            /\ inflight[r] = {}

C3_Witness ==
    \E r \in Requests :
        /\ Len(recv[r]) = 1
        /\ recv[r][1].status = 404
        /\ Hrefs(recv[r][1].articles) # <<>>
        /\ outcome[r] = "SearchUnavailable"
        /\ Len(sent[r]) = 1

CredentialMissing ==
    \E v \in {creds.DLE_USER_ID, creds.DLE_PASSWORD, creds.PHPSESSID} :
        ~v.set \/ v.val = <<>>

\* C4: with any of the three credentials absent or empty the endpoint fails
\* with Unauthenticated and issues no network call; the listing request is
\* only issued when all three were present.
C4_NoCallWithoutCredentials ==
    \A r \in Requests :
        /\ CredentialMissing =>
              /\ sent[r] = <<>>
              /\ inflight[r] = {}
              /\ pc[r] # "idle" => pc[r] = "done" /\ outcome[r] = "Unauthenticated"
        /\ sent[r] # <<>> => ~CredentialMissing

C4_Witness ==
    \E r \in Requests :
        /\ creds.DLE_USER_ID = SetTo(<<"s">>)
        /\ creds.DLE_PASSWORD = SetTo(<<"s">>)
        /\ creds.PHPSESSID = SetTo(<<>>)
        /\ pc[r] = "done"
        /\ outcome[r] = "Unauthenticated"
        /\ sent[r] = <<>>

\* C5: within one request at most one network call is outstanding: the
\* listing POST completes before the first GET, and the GET of link i+1 is
\* issued only after the GET of link i completed, in discovery order.
C5_OneCallAtATime ==
    \A r \in Requests :
        /\ Cardinality(inflight[r]) <= 1
        /\ Len(recv[r]) <= Len(sent[r])
        /\ Len(sent[r]) <= Len(recv[r]) + 1
        /\ inflight[r] = IF Len(sent[r]) > Len(recv[r]) THEN {Len(sent[r])} ELSE {}
        /\ \A k \in DOMAIN sent[r] :
              IF k = 1 THEN sent[r][k].method = "POST"
              ELSE /\ sent[r][k].method = "GET"
                   /\ k - 1 <= Len(links[r])
                   /\ sent[r][k].url = links[r][k - 1]

C5_Witness ==
    \E r \in Requests :
        /\ pc[r] = "await_get"
        /\ Len(links[r]) >= 3
        /\ idx[r] = 2
        /\ Len(recv[r]) = 2
        /\ inflight[r] = {3}

\* some url( is followed by a ) somewhere in the style
HasUrlToken(style) ==
    \E i \in 1 .. Len(style), j \in 1 .. Len(style) :
        /\ i + 3 < j
        /\ SubSeq(style, i, i + 3) = <<"u", "r", "l", "(">>
        /\ style[j] = ")"

\* C6: on a page with the root container and the title heading, a missing
\* cover element, a cover element without style attribute, or a style
\* without url(...) token gives a record with absent cover; extraction does
\* not fail in any of the three cases.
C6_CoverAbsentNeverFails ==
    (/\ parsed.exc # "pending"
     /\ title_of(html).exc = "none"
     /\ \/ ~html.figure.elem
        \/ ~html.figure.hasStyle
        \/ ~HasUrlToken(html.figure.style)) =>
        /\ parsed.exc = "none"
        /\ parsed.val[1].cover = None

\* C7: every record that extraction returns has a non-empty title.
C7_TitleNonEmpty ==
    parsed.exc = "none" => parsed.val[1].title # <<>>

\* tok is PT, then n decimal digits, then H, then anything
HourForm(tok, n) ==
    /\ n >= 1
    /\ Len(tok) >= n + 3
    /\ tok[1] = "P"
    /\ tok[2] = "T"
    /\ \A i \in 3 .. n + 2 : IsDigit(tok[i])
    /\ tok[n + 3] = "H"

RECURSIVE Horner(_, _)
Horner(ds, acc) ==
    IF ds = <<>> THEN acc ELSE Horner(Tail(ds), acc * 10 + DigitVal[Head(ds)])

\* C8: the duration is N*3600 exactly when the timeRequired content is
\* present and of the form PT<N>H followed by anything (PT5H and PT5H30M
\* give 18000); without element, without or with empty attribute, or with
\* another token (P1D) it is absent.
C8_DurationHours ==
    parsed.exc = "none" =>
        LET meta == html.timeRequired
            d == parsed.val[1].duration
        IN  /\ IF /\ meta.elem
                  /\ meta.hasContent
                  /\ \E n \in 1 .. Len(meta.content) : HourForm(meta.content, n)
               THEN \E n \in 1 .. Len(meta.content) :
                        /\ HourForm(meta.content, n)
                        /\ d = Some(Horner(SubSeq(meta.content, 3, n + 2), 0) * 3600)
               ELSE d = None
            /\ meta = Meta(<<"P", "T", "5", "H">>) => d = Some(18000)
            /\ meta = Meta(<<"P", "T", "5", "H", "3", "0", "M">>) => d = Some(18000)
            /\ meta = Meta(<<"P", "1", "D">>) => d = None

C8_Witness ==
    /\ parsed.exc = "none"
    /\ html.timeRequired = Meta(<<"P", "T", "5", "H", "3", "0", "M">>)
    /\ parsed.val[1].duration = Some(18000)

\* C9: an article without a resolvable title link (no anchor, or an anchor
\* without href) is skipped silently: no error, and the other articles'
\* links are still harvested and fetched.
C9_UnresolvableArticlesSkipped ==
    \A r \in Requests :
        (Len(recv[r]) >= 1 /\ FetchedOK(recv[r][1])) =>
            /\ outcome[r] # "InternalServerError"
            /\ pc[r] = "await_get" \/ outcome[r] = "matches" =>
                  links[r] = Hrefs(recv[r][1].articles)
            /\ outcome[r] = "matches" => Len(recv[r]) = Len(Hrefs(recv[r][1].articles)) + 1

\* C10: with requests interleaved at their suspension points, each
\* request's result comes from the responses to its own calls only, its
\* calls carry its own query and cookies, and the credentials a request
\* observed are the process-wide ones, unchanged.
C10_RequestsIsolated ==
    \A r \in Requests :
        /\ results[r] = Successes(DetailResponses(r))
        /\ Len(recv[r]) <= Len(sent[r])
        /\ cookies[r] # None => cookies[r] = Some(CookieDict(creds))
        /\ \A k \in DOMAIN sent[r] :
              /\ sent[r][k].cookies = cookies[r][1]
              /\ k = 1 => sent[r][k].story = query[r]
        /\ outcome[r] = "matches" => Len(results[r]) <= Len(links[r])

C10_Witness ==
    \E r, o \in Requests :
        /\ r # o
        /\ pc[r] = "await_get"
        /\ results[r] = <<>>
        /\ pc[o] = "done"
        /\ outcome[o] = "matches"
        /\ results[o] # <<>>
        /\ query[r] # query[o]

====
